---- MODULE Spec2Model ----
(***************************************************************************)
(* Model of src/main.py: the FastAPI handlers handle_test_run (POST        *)
(* /run-tests) and view_report (GET /report/{run_id}) together with the    *)
(* in-memory store REPORT_DB.                                              *)
(*                                                                         *)
(* Both handlers are async def coroutines served by one event loop.        *)
(* handle_test_run contains no await: every call it makes (the parser,     *)
(* the generator, the executor, time.sleep) blocks the loop, so once the   *)
(* loop has entered the handler no other handler runs until it returns.    *)
(* The variable loop holds the request the event loop is running.          *)
(*                                                                         *)
(* Python values: a str that is inspected character-wise (script and error *)
(* text) is a sequence of text fragments; an identifier is a TLA+ string;  *)
(* a cell value of a parsed record is PyStr(s) or PyInt(n).                *)
(***************************************************************************)
EXTENDS Integers, Sequences, FiniteSets, TLC

\* ------------------------------------------------------------------ bounds
MaxCases == 2
MaxPairCases == 3
NumReqs == 2

\* --------------------------------------------------------------- constants
MAX_RETRIES == 1

KEY == "TestCase Name/ID"
ERROR_MARKER == <<"# Gemini API Error">>
FAILED_SCRIPT == <<"Failed to generate script from Gemini.">>

Idle == 0
NoId == "-"
Reqs == 1..NumReqs

\* ------------------------------------------------------------ Python values
PyStr(s) == [str |-> s]
PyInt(n) == [int |-> n]

Digit(d) ==
  CASE d = 0 -> "0" [] d = 1 -> "1" [] d = 2 -> "2" [] d = 3 -> "3"
    [] d = 4 -> "4" [] d = 5 -> "5" [] d = 6 -> "6" [] d = 7 -> "7"
    [] d = 8 -> "8" [] d = 9 -> "9"

RECURSIVE IntToStr(_)
IntToStr(n) ==
  IF n < 0 THEN "-" \o IntToStr(-n)
  ELSE IF n < 10 THEN Digit(n)
  ELSE IntToStr(n \div 10) \o Digit(n % 10)

\* str(value)
Str(v) == IF "str" \in DOMAIN v THEN v.str ELSE IntToStr(v.int)

\* test_case.get(key, default)
DictGet(d, key, default) == IF key \in DOMAIN d THEN d[key] ELSE default

\* needle in text, for str: the needle occurs as a contiguous part of text
Contains(needle, text) ==
  \E k \in 1..(Len(text) - Len(needle) + 1) :
     SubSeq(text, k, k + Len(needle) - 1) = needle

\* ------------------------------------------------------------------ inputs
\* Records parse_test_file can hand over: the identifier cell holds an empty
\* string, a name, a number, or the column is absent from the record.
RecEmptyId == (KEY :> PyStr(""))
RecNamed == (KEY :> PyStr("A"))
RecNumbered == (KEY :> PyInt(7))
RecNoKey == ("Steps" :> PyStr("open login page"))
Records == {RecEmptyId, RecNamed, RecNumbered, RecNoKey}

RECURSIVE SeqsUpTo(_, _)
SeqsUpTo(S, n) ==
  IF n = 0 THEN {<<>>}
  ELSE LET shorter == SeqsUpTo(S, n - 1)
       IN shorter \cup {Append(s, x) : s \in {t \in shorter : Len(t) = n - 1}, x \in S}

Batches == SeqsUpTo(Records, MaxCases)

\* Uploads for comparing two runs: one record may stand at different places.
PairRecords == {RecEmptyId, RecNamed, RecNoKey}
PairBatches == SeqsUpTo(PairRecords, MaxPairCases)

\* Texts generate_initial_script can return.
OkScript == <<"from selenium import webdriver", "driver.get(url)">>
EmptyText == <<>>
ApiErrorText == <<"  ", "# Gemini API Error", ": 429 quota exceeded">>
GenTexts == {OkScript, EmptyText, ApiErrorText}

RunIdOf(n) == "uuid-" \o IntToStr(n)
RunIds == {RunIdOf(n) : n \in 1..(NumReqs + 1)}

\* ------------------------------------------------------------------- state
VARIABLES
  loop,            \* request the event loop is running, or Idle
  pc,              \* position of each handle_test_run invocation
  test_cases,      \* local: parsed records
  run_id,          \* local: str(uuid.uuid4())
  final_report,    \* local: the run report under construction
  i,               \* local: enumerate index of the for loop
  initial_script,  \* local: text returned by the generator
  calls,           \* per invocation: what it has called / printed so far
  response,        \* per invocation: the HTTP response returned
  REPORT_DB,       \* module global: run_id -> run report
  view             \* the view_report call the loop has just served, if any

vars == <<loop, pc, test_cases, run_id, final_report, i, initial_script,
          calls, response, REPORT_DB, view>>

NoResponse == [kind |-> "none"]
NoView == [run_id |-> NoId, response |-> NoResponse]

Init ==
  /\ loop = Idle
  /\ pc = [r \in Reqs |-> "pending"]
  /\ test_cases = [r \in Reqs |-> <<>>]
  /\ run_id = [r \in Reqs |-> NoId]
  /\ final_report = [r \in Reqs |-> [run_id |-> NoId, test_cases |-> <<>>]]
  /\ i = [r \in Reqs |-> 0]
  /\ initial_script = [r \in Reqs |-> <<>>]
  /\ calls = [r \in Reqs |-> <<>>]
  /\ response = [r \in Reqs |-> NoResponse]
  /\ REPORT_DB = <<>>
  /\ view = NoView

\* ------------------------------------------------- handle_test_run, pieces
\* variant: the lookup falls back to an empty identifier
TestCaseId_nodefault(idx, test_case) ==
  Str(DictGet(test_case, KEY, PyStr("")))

\* variant: the identifier is always taken from the position
TestCaseId_positional(idx, test_case) == "TestCase_" \o IntToStr(idx + 1)

\* line 58: str(test_case.get('TestCase Name/ID', f'TestCase_{i+1}'))
TestCaseId(idx, test_case) ==
  Str(DictGet(test_case, KEY, PyStr("TestCase_" \o IntToStr(idx + 1))))

\* variant: the emptiness test is missing
IsSkipped_never(test_case_id) == FALSE

\* line 59: if not test_case_id
IsSkipped(test_case_id) == test_case_id = ""

\* variant: only the marker is tested, empty text is not
IsGenerationFailure_markeronly(script) == Contains(ERROR_MARKER, script)

\* line 67: not initial_script or "# Gemini API Error" in initial_script
IsGenerationFailure(script) ==
  Len(script) = 0 \/ Contains(ERROR_MARKER, script)

Attempt(n, script, outcome, error) ==
  [attempt |-> n, script |-> script, outcome |-> outcome, error |-> error]

\* variant: the report of a generation failure is given the status Pass
GenFailReport_pass(test_case_id, script) ==
  [test_case_id |-> test_case_id,
   status |-> "Pass",
   retries |-> 0,
   history |-> <<Attempt(1, FAILED_SCRIPT, "Fail", script)>>]

\* lines 68-78
GenFailReport(test_case_id, script) ==
  [test_case_id |-> test_case_id,
   status |-> "Fail",
   retries |-> 0,
   history |-> <<Attempt(1, FAILED_SCRIPT, "Fail", script)>>]

\* executor.execute_test_case: the retry controller.  Attempt n executes the
\* script; Pass ends the case; Fail is followed by a repaired script for
\* attempt n + 1 while n is within the retry budget, and ends the case after.
RepairedScript == <<"from selenium import webdriver", "driver.get(url)  # fixed">>
ExecError == <<"AssertionError: title mismatch">>

RECURSIVE Histories(_, _)
Histories(n, script) ==
  LET passed == <<Attempt(n, script, "Pass", <<>>)>>
      failed == <<Attempt(n, script, "Fail", ExecError)>>
  IN {passed} \cup
     (IF n <= MAX_RETRIES
      THEN {failed \o h : h \in Histories(n + 1, RepairedScript)}
      ELSE {failed})

ExecutorReports(test_case_id, script) ==
  {[test_case_id |-> test_case_id,
    status |-> h[Len(h)].outcome,
    retries |-> Len(h) - 1,
    history |-> h] : h \in Histories(1, script)}

\* variant: the loop is left after its first iteration
LoopDone_early(idx, cases) == idx >= 1 \/ idx >= Len(cases)

\* line 57: the for loop is exhausted
LoopDone(idx, cases) == idx >= Len(cases)

\* variant: the handler runs off the loop (a plain def served by a worker
\* thread), the loop is free after each step
LoopAfter_threadpool(r) == Idle

\* lines 35-88: the handler is a coroutine that never awaits, so after each
\* of its steps the event loop is still running it
LoopAfter(r) == r

\* variant: break instead of continue
AfterSkip_break(idx, cases) == Len(cases)

\* line 61: continue, the loop goes on with the next record
AfterSkip(idx, cases) == idx + 1

\* variant: the report is inserted at the front
ListAppend_front(list, x) == <<x>> \o list

\* line 82: final_report["test_cases"].append(test_report)
ListAppend(list, x) == Append(list, x)

\* variant: the parse failure is answered with the plain upload page
ParseErrorResponse_silent ==
  [kind |-> "template", name |-> "index.html", error |-> ""]

\* line 47
ParseErrorResponse ==
  [kind |-> "template", name |-> "index.html", error |-> "Failed to parse file"]

\* line 88
RedirectResponse(id) == [kind |-> "redirect", url |-> "/report/" \o id]

\* an exception leaving the handler: the framework answers 500
ServerError == [kind |-> "error500"]

\* variant: the store is replaced by one holding only the new report
DictSet_replace(db, key, value) == (key :> value)

\* line 87: REPORT_DB[run_id] = final_report
DictSet(db, key, value) == (key :> value) @@ db

\* variant: a report without test cases counts as absent
view_report_nonempty(db, id) ==
  IF id \in DOMAIN db /\ Len(db[id].test_cases) > 0
  THEN [kind |-> "template", name |-> "report.html", report |-> db[id]]
  ELSE [kind |-> "template", name |-> "index.html", error |-> "Report not found!"]

\* lines 94-98
view_report(db, id) ==
  IF id \in DOMAIN db /\ Cardinality(DOMAIN db[id]) > 0
  THEN [kind |-> "template", name |-> "report.html", report |-> db[id]]
  ELSE [kind |-> "template", name |-> "index.html", error |-> "Report not found!"]

Ev(op, idx) == [op |-> op, i |-> idx]
EvRet(op, idx, ret) == [op |-> op, i |-> idx, ret |-> ret]
EvArg(op, idx, arg) == [op |-> op, i |-> idx, arg |-> arg]

\* variant: the pause is missing
CooldownEvents_none(idx) == <<>>

\* lines 84-85: print, time.sleep(2)
CooldownEvents(idx) == <<Ev("sleep", idx)>>

\* variant: a case whose script could not be generated is taken up again
NextIndex_retry(idx, test_report) ==
  IF test_report.history[1].script = FAILED_SCRIPT THEN idx ELSE idx + 1

\* line 57: the for loop moves on to the next record, whatever test_report is
NextIndex(idx, test_report) == idx + 1

\* uuid4 values already handed out
UsedIds == {run_id[r] : r \in Reqs} \ {NoId}

\* line 51: str(uuid.uuid4()), a value no earlier call returned.  The values
\* are opaque to the code, so the n-th one handed out is named uuid-n.
Uuid4(used) == RunIdOf(Cardinality(used) + 1)

RECURSIVE SumLen(_)
SumLen(rs) ==
  IF rs = {} THEN 0
  ELSE LET r == CHOOSE x \in rs : TRUE
       IN Len(test_cases[r]) + SumLen(rs \ {r})

\* records parsed so far, over all requests
TotalParsed == SumLen(Reqs)

\* Invocations are numbered in the order the event loop takes them up: r is
\* next when the loop is free and every earlier invocation has begun.
IsNext(r) ==
  /\ loop = Idle /\ pc[r] = "pending"
  /\ \A q \in Reqs : q < r => pc[q] # "pending"

\* the event loop runs request r, or is free to resume it
Scheduled(r) == loop = r \/ (loop = Idle /\ pc[r] # "pending")

\* ----------------------------------------------------------------- actions
\* lines 40-47: the upload is saved, parse_test_file raises
ParseFails(r) ==
  /\ IsNext(r)
  /\ pc' = [pc EXCEPT ![r] = "parse_error"]
  /\ response' = [response EXCEPT ![r] = ParseErrorResponse]
  /\ view' = NoView
  /\ UNCHANGED <<loop, test_cases, run_id, final_report, i, initial_script,
                 calls, REPORT_DB>>

\* lines 40-55: the upload is saved and parsed, the run report is created;
\* the upload is one of batches and at most cap records are parsed in all
HandleStartWith(r, batches, cap) ==
  /\ IsNext(r)
  /\ \E batch \in batches :
       /\ TotalParsed + Len(batch) <= cap
       /\ test_cases' = [test_cases EXCEPT ![r] = batch]
  /\ LET id == Uuid4(UsedIds)
     IN /\ run_id' = [run_id EXCEPT ![r] = id]
        /\ final_report' = [final_report EXCEPT
                              ![r] = [run_id |-> id, test_cases |-> <<>>]]
  /\ i' = [i EXCEPT ![r] = 0]
  /\ pc' = [pc EXCEPT ![r] = "loop"]
  /\ loop' = LoopAfter(r)
  /\ view' = NoView
  /\ UNCHANGED <<initial_script, calls, response, REPORT_DB>>

HandleStart(r) == HandleStartWith(r, Batches, MaxCases)

\* the same handler fed with longer uploads of fewer kinds of record
PairStart(r) == HandleStartWith(r, PairBatches, MaxPairCases)

\* lines 57-61: a record whose identifier is empty is skipped
Skip(r) ==
  /\ Scheduled(r) /\ pc[r] = "loop"
  /\ ~LoopDone(i[r], test_cases[r])
  /\ IsSkipped(TestCaseId(i[r], test_cases[r][i[r] + 1]))
  /\ calls' = [calls EXCEPT ![r] = Append(@, Ev("skip", i[r]))]
  /\ i' = [i EXCEPT ![r] = AfterSkip(@, test_cases[r])]
  /\ loop' = LoopAfter(r)
  /\ UNCHANGED <<pc, test_cases, run_id, final_report, initial_script,
                 response, REPORT_DB, view>>

\* lines 57-65: the generator is called for the record
CallGenerator(r) ==
  /\ Scheduled(r) /\ pc[r] = "loop"
  /\ ~LoopDone(i[r], test_cases[r])
  /\ ~IsSkipped(TestCaseId(i[r], test_cases[r][i[r] + 1]))
  /\ calls' = [calls EXCEPT ![r] = Append(@, Ev("generate", i[r]))]
  /\ pc' = [pc EXCEPT ![r] = "gen"]
  /\ loop' = LoopAfter(r)
  /\ UNCHANGED <<test_cases, run_id, final_report, i, initial_script,
                 response, REPORT_DB, view>>

\* lines 65-82: the generator returns; a failure is reported without executing
GeneratorReturns(r) ==
  /\ Scheduled(r) /\ pc[r] = "gen"
  /\ \E text \in GenTexts :
       LET id == TestCaseId(i[r], test_cases[r][i[r] + 1])
           returned == Append(calls[r], EvRet("generated", i[r], text))
       IN /\ initial_script' = [initial_script EXCEPT ![r] = text]
          /\ IF IsGenerationFailure(text)
             THEN /\ final_report' = [final_report EXCEPT ![r].test_cases =
                                        ListAppend(@, GenFailReport(id, text))]
                  /\ calls' = [calls EXCEPT ![r] =
                                 Append(returned, Ev("append", i[r]))]
                  /\ pc' = [pc EXCEPT ![r] = "cooldown"]
             ELSE /\ calls' = [calls EXCEPT ![r] =
                                 Append(returned, EvArg("execute", i[r], id))]
                  /\ pc' = [pc EXCEPT ![r] = "exec"]
                  /\ UNCHANGED final_report
  /\ loop' = LoopAfter(r)
  /\ UNCHANGED <<test_cases, run_id, i, response, REPORT_DB, view>>

\* line 65: the generator raises; nothing in the handler catches it
GeneratorRaises(r) ==
  /\ Scheduled(r) /\ pc[r] = "gen"
  /\ calls' = [calls EXCEPT ![r] = Append(@, Ev("generate_raised", i[r]))]
  /\ pc' = [pc EXCEPT ![r] = "raised"]
  /\ response' = [response EXCEPT ![r] = ServerError]
  /\ loop' = Idle
  /\ UNCHANGED <<test_cases, run_id, final_report, i, initial_script,
                 REPORT_DB, view>>

\* lines 80-82: the executor returns its report, which is appended
ExecutorReturns(r) ==
  /\ Scheduled(r) /\ pc[r] = "exec"
  /\ \E rep \in ExecutorReports(TestCaseId(i[r], test_cases[r][i[r] + 1]),
                                initial_script[r]) :
       /\ final_report' = [final_report EXCEPT ![r].test_cases =
                                   ListAppend(@, rep)]
       /\ calls' = [calls EXCEPT ![r] =
                      Append(Append(@, EvRet("executed", i[r], rep)),
                             Ev("append", i[r]))]
  /\ pc' = [pc EXCEPT ![r] = "cooldown"]
  /\ loop' = LoopAfter(r)
  /\ UNCHANGED <<test_cases, run_id, i, initial_script, response, REPORT_DB, view>>

\* line 80: the executor raises; nothing in the handler catches it
ExecutorRaises(r) ==
  /\ Scheduled(r) /\ pc[r] = "exec"
  /\ calls' = [calls EXCEPT ![r] = Append(@, Ev("execute_raised", i[r]))]
  /\ pc' = [pc EXCEPT ![r] = "raised"]
  /\ response' = [response EXCEPT ![r] = ServerError]
  /\ loop' = Idle
  /\ UNCHANGED <<test_cases, run_id, final_report, i, initial_script,
                 REPORT_DB, view>>

\* lines 84-85 and 57: the cooldown, then the next iteration
Cooldown(r) ==
  /\ Scheduled(r) /\ pc[r] = "cooldown"
  /\ calls' = [calls EXCEPT ![r] = @ \o CooldownEvents(i[r])]
  /\ i' = [i EXCEPT ![r] =
             NextIndex(@, final_report[r].test_cases[
                            Len(final_report[r].test_cases)])]
  /\ pc' = [pc EXCEPT ![r] = "loop"]
  /\ loop' = LoopAfter(r)
  /\ UNCHANGED <<test_cases, run_id, final_report, initial_script,
                 response, REPORT_DB, view>>

\* lines 87-88: the loop is over, the report is stored, the client redirected
Store(r) ==
  /\ Scheduled(r) /\ pc[r] = "loop"
  /\ LoopDone(i[r], test_cases[r])
  /\ REPORT_DB' = DictSet(REPORT_DB, run_id[r], final_report[r])
  /\ response' = [response EXCEPT ![r] = RedirectResponse(run_id[r])]
  /\ pc' = [pc EXCEPT ![r] = "done"]
  /\ loop' = Idle
  /\ UNCHANGED <<test_cases, run_id, final_report, i, initial_script,
                 calls, view>>

\* lines 91-98: view_report, for any run_id a client may ask for
ViewReport(id) ==
  /\ loop = Idle
  /\ view' = [run_id |-> id, response |-> view_report(REPORT_DB, id)]
  /\ UNCHANGED <<loop, pc, test_cases, run_id, final_report, i,
                 initial_script, calls, response, REPORT_DB>>

Next ==
  \/ \E r \in Reqs : ParseFails(r)
  \/ \E r \in Reqs : HandleStart(r)
  \/ \E r \in Reqs : Skip(r)
  \/ \E r \in Reqs : CallGenerator(r)
  \/ \E r \in Reqs : GeneratorReturns(r)
  \/ \E r \in Reqs : GeneratorRaises(r)
  \/ \E r \in Reqs : ExecutorReturns(r)
  \/ \E r \in Reqs : ExecutorRaises(r)
  \/ \E r \in Reqs : Cooldown(r)
  \/ \E r \in Reqs : Store(r)
  \/ \E id \in RunIds : ViewReport(id)

Spec == Init /\ [][Next]_vars

\* A deterministic generator and executor: what the generator returns
\* depends on the record only, what the executor returns on the identifier
\* and the script it is given.  In calls[r] an executed event is preceded by
\* its execute event (the identifier) and that by the generated event (the
\* script).
EventsAt(op) ==
  {e \in Reqs \X (1..(4 * (MaxCases + MaxPairCases + 1))) :
     e[2] \in DOMAIN calls[e[1]] /\ calls[e[1]][e[2]].op = op}

RecordOf(e) == test_cases[e[1]][calls[e[1]][e[2]].i + 1]

DeterministicGenerator ==
  \A e1, e2 \in EventsAt("generated") :
    RecordOf(e1) = RecordOf(e2) =>
      calls[e1[1]][e1[2]].ret = calls[e2[1]][e2[2]].ret

DeterministicExecutor ==
  \A e1, e2 \in EventsAt("executed") :
    (/\ calls[e1[1]][e1[2] - 1].arg = calls[e2[1]][e2[2] - 1].arg
     /\ calls[e1[1]][e1[2] - 2].ret = calls[e2[1]][e2[2] - 2].ret) =>
      calls[e1[1]][e1[2]].ret = calls[e2[1]][e2[2]].ret

\* the generator and the executor answer as they answered before
DetGeneratorReturns(r) == GeneratorReturns(r) /\ DeterministicGenerator'
DetExecutorReturns(r) == ExecutorReturns(r) /\ DeterministicExecutor'

\* Two runs served by a deterministic generator and executor.  view_report
\* only reads REPORT_DB and is left to Spec.
NextPair ==
  \/ \E r \in Reqs : ParseFails(r)
  \/ \E r \in Reqs : PairStart(r)
  \/ \E r \in Reqs : Skip(r)
  \/ \E r \in Reqs : CallGenerator(r)
  \/ \E r \in Reqs : DetGeneratorReturns(r)
  \/ \E r \in Reqs : GeneratorRaises(r)
  \/ \E r \in Reqs : DetExecutorReturns(r)
  \/ \E r \in Reqs : ExecutorRaises(r)
  \/ \E r \in Reqs : Cooldown(r)
  \/ \E r \in Reqs : Store(r)

SpecPair == Init /\ [][NextPair]_vars

\* -------------------------------------------------------------- properties
\* What the properties speak of, stated without the operators of the model.

NotFound ==
  [kind |-> "template", name |-> "index.html", error |-> "Report not found!"]

PositionalNames ==
  <<"TestCase_1", "TestCase_2", "TestCase_3", "TestCase_4", "TestCase_5">>

\* the identifier of the n-th input record (n counted from 1)
ExpectedId(n, rec) ==
  CASE rec = RecEmptyId -> ""
    [] rec = RecNamed -> "A"
    [] rec = RecNumbered -> "7"
    [] rec = RecNoKey -> PositionalNames[n]

\* the identifiers of the first n records, the empty ones removed
RECURSIVE ExpectedIdsUpTo(_, _)
ExpectedIdsUpTo(batch, n) ==
  IF n = 0 THEN <<>>
  ELSE LET rest == ExpectedIdsUpTo(batch, n - 1)
           id == ExpectedId(n, batch[n])
       IN IF id = "" THEN rest ELSE Append(rest, id)

ExpectedIds(batch) == ExpectedIdsUpTo(batch, Len(batch))

\* the generator's text is an error sentinel or empty
ReturnedFailure(text) == text \in {EmptyText, ApiErrorText}

EventsOf(r, op, idx) ==
  {k \in DOMAIN calls[r] : calls[r][k].op = op /\ calls[r][k].i = idx}

\* the report appended by the append event at place k of calls[r]
ReportAt(r, k) ==
  final_report[r].test_cases[
    Cardinality({j \in 1..k : calls[r][j].op = "append"})]

Stored(r) == REPORT_DB[run_id[r]]

StoredIds(r) ==
  [k \in 1..Len(Stored(r).test_cases) |-> Stored(r).test_cases[k].test_case_id]

Finished(r) == pc[r] = "done"

\* C1: when handle_test_run has finished, the stored run report holds exactly
\* one test-case report for each input record whose identifier is non-empty
\* and none for any other record; its length is the number of such records.
\* (The identifier of a record is the text of its identifier cell; a record
\* without the cell is identified by its position, see C5.)
C1_OneReportPerIdentifiedRecord ==
  \A r \in Reqs : Finished(r) =>
    /\ run_id[r] \in DOMAIN REPORT_DB
    /\ Len(Stored(r).test_cases) =
         Cardinality({n \in DOMAIN test_cases[r] :
                        ExpectedId(n, test_cases[r][n]) # ""})
    /\ \A n \in DOMAIN test_cases[r] :
         Cardinality(EventsOf(r, "append", n - 1)) =
           IF ExpectedId(n, test_cases[r][n]) # "" THEN 1 ELSE 0

C1_Witness ==
  \E r \in Reqs :
    /\ Finished(r)
    /\ test_cases[r] = <<RecNamed, RecEmptyId>>
    /\ Len(Stored(r).test_cases) = 1

\* C2: the test_case_id values of the stored run report are the identifiers
\* of the input records in input order, the records with an empty identifier
\* removed: nothing is reordered or duplicated, whatever the outcomes.
C2_OrderPreserved ==
  \A r \in Reqs : Finished(r) => StoredIds(r) = ExpectedIds(test_cases[r])

C2_Witness ==
  \E r \in Reqs :
    /\ Finished(r)
    /\ test_cases[r] = <<RecNumbered, RecNamed>>
    /\ StoredIds(r) = <<"7", "A">>
    /\ Stored(r).test_cases[1].status = "Pass"
    /\ Stored(r).test_cases[2].status = "Fail"
    /\ Stored(r).test_cases[2].retries = 0

\* C3: when the generator returns an error sentinel or empty text for a test
\* case, the report of that case has status Fail, retries 0 and a history of
\* exactly one attempt (number 1, outcome Fail, the returned text as error),
\* and the executor is never invoked for that case.
C3_GenerationFailureReport ==
  \A r \in Reqs : \A k \in DOMAIN calls[r] :
    (calls[r][k].op = "generated" /\ ReturnedFailure(calls[r][k].ret)) =>
      LET idx == calls[r][k].i
          rep == ReportAt(r, k + 1)
      IN /\ EventsOf(r, "execute", idx) = {}
         /\ EventsOf(r, "executed", idx) = {}
         /\ k + 1 \in DOMAIN calls[r]
         /\ calls[r][k + 1] = Ev("append", idx)
         /\ rep.test_case_id = ExpectedId(idx + 1, test_cases[r][idx + 1])
         /\ rep.status = "Fail"
         /\ rep.retries = 0
         /\ Len(rep.history) = 1
         /\ rep.history[1].attempt = 1
         /\ rep.history[1].outcome = "Fail"
         /\ rep.history[1].error = calls[r][k].ret
         /\ Finished(r) => rep \in {Stored(r).test_cases[j] :
                                      j \in DOMAIN Stored(r).test_cases}

C3_Witness ==
  \E r \in Reqs :
    /\ Finished(r)
    /\ \E k \in DOMAIN calls[r] :
         /\ calls[r][k].op = "generated"
         /\ calls[r][k].ret = ApiErrorText
    /\ \E k \in DOMAIN calls[r] :
         /\ calls[r][k].op = "generated"
         /\ calls[r][k].ret = EmptyText

\* C4: a record whose identifier cell is present but empty is left out of
\* the run report, and the batch goes on: the loop continues with the next
\* record, every later record with a non-empty identifier is processed and
\* reported, and the run report is stored.
C4_EmptyIdExcludedBatchContinues ==
  \A r \in Reqs : \A n \in DOMAIN test_cases[r] :
    test_cases[r][n] = RecEmptyId =>
      /\ \A k \in DOMAIN calls[r] :
           calls[r][k].i = n - 1 => calls[r][k].op = "skip"
      /\ (calls[r] # <<>> /\ calls[r][Len(calls[r])] = Ev("skip", n - 1)) =>
           (pc[r] \in {"loop", "done"} /\ i[r] = n)
      /\ Finished(r) =>
           /\ run_id[r] \in DOMAIN REPORT_DB
           /\ \A m \in (n + 1)..Len(test_cases[r]) :
                ExpectedId(m, test_cases[r][m]) # "" =>
                  /\ Cardinality(EventsOf(r, "generate", m - 1)) = 1
                  /\ Cardinality(EventsOf(r, "append", m - 1)) = 1
           /\ Len(Stored(r).test_cases) =
                Cardinality({k \in DOMAIN calls[r] : calls[r][k].op = "append"})

C4_Witness ==
  \E r \in Reqs :
    /\ Finished(r)
    /\ test_cases[r] = <<RecEmptyId, RecNamed>>
    /\ StoredIds(r) = <<"A">>

\* C5 as stated: a record whose identifier cell is missing is skipped like
\* one with an empty identifier: no generator call and no report for it.
C5_MissingIdSkipped ==
  \A r \in Reqs : \A n \in DOMAIN test_cases[r] :
    test_cases[r][n] = RecNoKey =>
      \A k \in DOMAIN calls[r] :
        calls[r][k].i = n - 1 => calls[r][k].op = "skip"

\* C5 (amended): a record whose identifier cell is missing is not skipped:
\* it is identified by its position, TestCase_<n> for the n-th record; the
\* generator is called for it once, that identifier is the one written into
\* its generation-failure report or handed to the executor, and one report
\* for it is in the finished run report.
C5_MissingIdGetsPositionalName ==
  \A r \in Reqs : \A n \in DOMAIN test_cases[r] :
    test_cases[r][n] = RecNoKey =>
      /\ EventsOf(r, "skip", n - 1) = {}
      /\ (i[r] > n - 1 \/ (i[r] = n - 1 /\ pc[r] # "loop")) =>
           Cardinality(EventsOf(r, "generate", n - 1)) = 1
      /\ \A k \in EventsOf(r, "execute", n - 1) :
           calls[r][k].arg = PositionalNames[n]
      /\ \A k \in EventsOf(r, "generated", n - 1) :
           ReturnedFailure(calls[r][k].ret) =>
             ReportAt(r, k + 1).test_case_id = PositionalNames[n]
      /\ Finished(r) => Cardinality(EventsOf(r, "append", n - 1)) = 1

C5_Witness ==
  \E r \in Reqs :
    /\ Finished(r)
    /\ test_cases[r] = <<RecNoKey, RecNoKey>>
    /\ Len(Stored(r).test_cases) = 2
    /\ Stored(r).test_cases[1].history[1].script = FAILED_SCRIPT
    /\ EventsOf(r, "execute", 1) # {}

\* C6 as stated: a failure of the generator or the executor for a test case,
\* a raised error included, never aborts the batch: it becomes a report of
\* that case, and the handler goes on to store the run report.
C6_FailureNeverAborts ==
  \A r \in Reqs : \A k \in DOMAIN calls[r] :
    calls[r][k].op \in {"generate_raised", "execute_raised"} =>
      /\ pc[r] # "raised"
      /\ \E j \in DOMAIN calls[r] : j > k /\ calls[r][j] = Ev("append", calls[r][k].i)

\* C7: the store gains the entry of a run only after every test case of the
\* run has been processed: while a run is unfinished view_report of its
\* identifier answers not found, and a stored report is the complete one.
C7_NoPartialRunVisible ==
  /\ \A r \in Reqs :
       (~Finished(r) /\ run_id[r] # NoId) =>
         /\ run_id[r] \notin DOMAIN REPORT_DB
         /\ view_report(REPORT_DB, run_id[r]) = NotFound
  /\ \A id \in DOMAIN REPORT_DB :
       \E r \in Reqs :
         /\ run_id[r] = id /\ Finished(r)
         /\ REPORT_DB[id] = final_report[r]
         /\ \A n \in DOMAIN test_cases[r] :
              EventsOf(r, "skip", n - 1) \cup EventsOf(r, "append", n - 1) # {}
         /\ Len(REPORT_DB[id].test_cases) =
              Cardinality({k \in DOMAIN calls[r] : calls[r][k].op = "append"})

C7_Witness ==
  \E r \in Reqs :
    /\ pc[r] = "cooldown"
    /\ Len(test_cases[r]) = 2
    /\ Len(final_report[r].test_cases) = 1
    /\ view_report(REPORT_DB, run_id[r]) = NotFound

\* C8: view_report(id) returns exactly the run report handle_test_run stored
\* under id if that run has completed, and not found if no completed run has
\* that identifier; it never returns the report of another run.
ViewAnswer(id) ==
  IF \E r \in Reqs : Finished(r) /\ run_id[r] = id
  THEN LET r == CHOOSE q \in Reqs : Finished(q) /\ run_id[q] = id
       IN [kind |-> "template", name |-> "report.html",
           report |-> final_report[r]]
  ELSE NotFound

C8_ViewReturnsStoredReport ==
  /\ \A id \in RunIds :
       /\ view_report(REPORT_DB, id) = ViewAnswer(id)
       /\ view_report(REPORT_DB, id) # NotFound =>
            view_report(REPORT_DB, id).report.run_id = id
  /\ view # NoView => view.response = ViewAnswer(view.run_id)
  /\ \A r, q \in Reqs : (r # q /\ run_id[r] # NoId) => run_id[r] # run_id[q]

C8_Witness ==
  /\ \A r \in Reqs : Finished(r)
  /\ \E r \in Reqs : final_report[r].test_cases = <<>>
  /\ \E r \in Reqs : Len(final_report[r].test_cases) = 2
  /\ view # NoView
  /\ view.response # NotFound
  /\ view.response.report.test_cases = <<>>

\* C9: when parsing the input file fails the error is returned to the
\* caller and no test cases are produced: the generator and the executor are
\* not called, no run identifier is allocated, the store is left unchanged,
\* and the invocation does nothing afterwards.
C9_ParseErrorStep ==
  \A r \in Reqs :
    /\ (pc[r] = "pending" /\ pc'[r] = "parse_error") =>
         /\ REPORT_DB' = REPORT_DB
         /\ UsedIds' = UsedIds
         /\ response'[r].name = "index.html"
         /\ response'[r].error = "Failed to parse file"
    /\ pc'[r] = "parse_error" =>
         /\ test_cases'[r] = <<>>
         /\ calls'[r] = <<>>
         /\ run_id'[r] = NoId
         /\ final_report'[r].test_cases = <<>>
         /\ response'[r] = [kind |-> "template", name |-> "index.html",
                            error |-> "Failed to parse file"]
    /\ pc[r] = "parse_error" => pc'[r] = "parse_error"

C9_ParseErrorSurfaced == [][C9_ParseErrorStep]_vars

C9_Witness ==
  \E r, q \in Reqs :
    /\ pc[r] = "parse_error"
    /\ Finished(q)
    /\ DOMAIN REPORT_DB = {run_id[q]}
    /\ Len(Stored(q).test_cases) = 1

\* C10: at every moment at most one invocation of handle_test_run is under
\* way, so at most one test case is being generated or executed and no two
\* executions write to a working directory at the same time, also when
\* several run requests are waiting at once.
Underway(r) == pc[r] \in {"loop", "gen", "exec", "cooldown"}

C10_ExclusiveSequentialExecution ==
  /\ Cardinality({r \in Reqs : pc[r] \in {"gen", "exec"}}) <= 1
  /\ Cardinality({r \in Reqs : Underway(r)}) <= 1
  /\ \A r \in Reqs : Underway(r) => loop = r

C10_Witness ==
  \E r, q \in Reqs :
    /\ pc[r] = "exec"
    /\ pc[q] = "pending"
    /\ loop = r
    /\ Len(final_report[r].test_cases) = 1

\* C11: in every stored run report (and in every run report under
\* construction) each test-case report has at least one attempt, and its
\* status is Pass exactly when the outcome of its last attempt is Pass, for
\* the reports built on the generation-failure path and for those returned by
\* the executor alike.
StatusMatchesLastAttempt(rep) ==
  /\ Len(rep.history) >= 1
  /\ rep.status \in {"Pass", "Fail"}
  /\ rep.status = "Pass" <=> rep.history[Len(rep.history)].outcome = "Pass"

C11_StatusIffLastAttemptPassed ==
  /\ \A id \in DOMAIN REPORT_DB :
       \A k \in DOMAIN REPORT_DB[id].test_cases :
         StatusMatchesLastAttempt(REPORT_DB[id].test_cases[k])
  /\ \A r \in Reqs :
       \A k \in DOMAIN final_report[r].test_cases :
         StatusMatchesLastAttempt(final_report[r].test_cases[k])

C11_Witness ==
  \E r \in Reqs :
    /\ Finished(r)
    /\ Len(Stored(r).test_cases) = 2
    /\ Stored(r).test_cases[1].history[1].script = FAILED_SCRIPT
    /\ Stored(r).test_cases[1].status = "Fail"
    /\ Stored(r).test_cases[2].status = "Pass"
    /\ Stored(r).test_cases[2].retries = 1
    /\ Stored(r).test_cases[2].history[1].outcome = "Fail"

\* the reports of record n of run r and of record m of run q are the same
SameReports(r, n, q, m) ==
  \A k \in EventsOf(r, "append", n - 1) : \A l \in EventsOf(q, "append", m - 1) :
    ReportAt(r, k) = ReportAt(q, l)

\* C12 as stated: with a deterministic generator and executor the same
\* record processed in two runs yields reports of identical content.
C12_SameRecordSameReport ==
  (DeterministicGenerator /\ DeterministicExecutor) =>
    \A r, q \in Reqs : \A n \in DOMAIN test_cases[r], m \in DOMAIN test_cases[q] :
      (r # q /\ test_cases[r][n] = test_cases[q][m]) => SameReports(r, n, q, m)

\* C12 (amended): with a deterministic generator and executor the same
\* record processed in two runs yields reports of identical content when the
\* record carries an identifier cell or stands at the same place of both
\* inputs; the two runs have different run identifiers.
C12_SameIdentifiedRecordSameReport ==
  (DeterministicGenerator /\ DeterministicExecutor) =>
    \A r, q \in Reqs : \A n \in DOMAIN test_cases[r], m \in DOMAIN test_cases[q] :
      (r # q /\ test_cases[r][n] = test_cases[q][m]) =>
        /\ (KEY \in DOMAIN test_cases[r][n] \/ n = m) => SameReports(r, n, q, m)
        /\ run_id[r] # run_id[q]

C12_Witness ==
  /\ DeterministicGenerator /\ DeterministicExecutor
  /\ \A r \in Reqs : Finished(r)
  /\ \E r, q \in Reqs :
       /\ test_cases[r] = <<RecNamed, RecNoKey>>
       /\ test_cases[q] = <<RecNamed>>
       /\ Stored(r).test_cases[1] = Stored(q).test_cases[1]
       /\ Stored(q).test_cases[1].retries = 1
       /\ Stored(r).run_id # Stored(q).run_id

\* C13: between the generator calls of two test cases of a batch lie, in
\* this order, the append of the earlier case's report and the cooldown of
\* the earlier case; every append is directly followed by the cooldown.
C13_CooldownBetweenCases ==
  \A r \in Reqs :
    /\ \A j, k \in DOMAIN calls[r] :
         (j < k /\ calls[r][j].op = "generate" /\ calls[r][k].op = "generate") =>
           \E a, s \in (j + 1)..(k - 1) :
             /\ a < s
             /\ calls[r][a] = Ev("append", calls[r][j].i)
             /\ calls[r][s] = Ev("sleep", calls[r][j].i)
    /\ \A a \in DOMAIN calls[r] :
         (calls[r][a].op = "append" /\ a < Len(calls[r])) =>
           calls[r][a + 1] = Ev("sleep", calls[r][a].i)
    /\ (pc[r] = "loop" /\ i[r] > 0 /\ Len(final_report[r].test_cases) > 0) =>
         \E s \in DOMAIN calls[r] : calls[r][s].op = "sleep"

C13_Witness ==
  \E r \in Reqs :
    /\ pc[r] = "gen"
    /\ test_cases[r] = <<RecNamed, RecNumbered>>
    /\ i[r] = 1
    /\ Len(calls[r]) >= 2
    /\ calls[r][Len(calls[r]) - 1] = Ev("sleep", 0)
    /\ calls[r][Len(calls[r])] = Ev("generate", 1)

\* the loop has reached or passed record n of run r
Reached(r, n) ==
  i[r] > n - 1 \/ (i[r] = n - 1 /\ pc[r] \in {"gen", "exec", "cooldown", "raised"})

\* C14: within a run the generator is called exactly once for each record
\* that is not skipped and never for a skipped one; after it has returned a
\* failure the next thing the handler does is append the Fail report, and the
\* generator is not called for that case again.
C14_GeneratorCalledOnce ==
  \A r \in Reqs : \A n \in DOMAIN test_cases[r] :
    /\ Cardinality(EventsOf(r, "generate", n - 1)) =
         IF ExpectedId(n, test_cases[r][n]) # "" /\ Reached(r, n) THEN 1 ELSE 0
    /\ Cardinality(EventsOf(r, "generated", n - 1)) <= 1
    /\ \A k \in EventsOf(r, "generated", n - 1) :
         ReturnedFailure(calls[r][k].ret) =>
           /\ calls[r][k + 1] = Ev("append", n - 1)
           /\ ReportAt(r, k + 1).status = "Fail"
           /\ \A l \in DOMAIN calls[r] :
                l > k => ~(calls[r][l].op = "generate" /\ calls[r][l].i = n - 1)

C14_Witness ==
  \E r \in Reqs :
    /\ Finished(r)
    /\ Len(test_cases[r]) = 2
    /\ \E k \in EventsOf(r, "generated", 0) : calls[r][k].ret = ApiErrorText
    /\ \E k \in EventsOf(r, "generated", 1) : calls[r][k].ret = OkScript
    /\ Cardinality({k \in DOMAIN calls[r] : calls[r][k].op = "generate"}) = 2

\* C15: every run gets a run identifier distinct from those of the other
\* runs and keeps it; a report once stored under its identifier is neither
\* changed nor removed by any later step, be it of another run or of
\* view_report: the store only grows, and view_report leaves it as it is.
C15_Step ==
  /\ \A id \in DOMAIN REPORT_DB :
       id \in DOMAIN REPORT_DB' /\ REPORT_DB'[id] = REPORT_DB[id]
  /\ \A r \in Reqs : run_id[r] # NoId => run_id'[r] = run_id[r]
  /\ \A r, q \in Reqs :
       (r # q /\ run_id'[r] # NoId) => run_id'[r] # run_id'[q]
  /\ view' # view => REPORT_DB' = REPORT_DB
  /\ \A id \in DOMAIN REPORT_DB' \ DOMAIN REPORT_DB :
       \E r \in Reqs : run_id[r] = id /\ pc[r] = "loop" /\ pc'[r] = "done"

C15_StoredReportsWriteOnce == [][C15_Step]_vars

C15_Witness ==
  /\ Cardinality(DOMAIN REPORT_DB) = 2
  /\ \A id \in DOMAIN REPORT_DB : Len(REPORT_DB[id].test_cases) = 1
  /\ view.run_id = RunIdOf(1)
  /\ view.response # NotFound

\* no record of run r is processed: the input is empty or all is skipped
NothingToProcess(r) ==
  \A n \in DOMAIN test_cases[r] : ExpectedId(n, test_cases[r][n]) = ""

\* C16: a batch in which no record is processed still completes as a run:
\* the handler can only skip and store, the report stored under the run's
\* own fresh identifier has an empty test_cases list, the client is sent to
\* it, and view_report of that identifier returns this report, not not found.
C16_EmptyRunStored ==
  \A r \in Reqs : (run_id[r] # NoId /\ NothingToProcess(r)) =>
    /\ pc[r] \in {"loop", "done"}
    /\ final_report[r] = [run_id |-> run_id[r], test_cases |-> <<>>]
    /\ \A q \in Reqs : q # r => run_id[q] # run_id[r]
    /\ Finished(r) =>
         /\ run_id[r] \in DOMAIN REPORT_DB
         /\ Stored(r) = [run_id |-> run_id[r], test_cases |-> <<>>]
         /\ response[r] = [kind |-> "redirect", url |-> "/report/" \o run_id[r]]
         /\ view_report(REPORT_DB, run_id[r]) =
              [kind |-> "template", name |-> "report.html", report |-> Stored(r)]
         /\ view.run_id = run_id[r] =>
              (view.response.name = "report.html"
               /\ view.response.report.test_cases = <<>>)

C16_Witness ==
  \E r, q \in Reqs :
    /\ r # q
    /\ Finished(r) /\ Finished(q)
    /\ test_cases[r] = <<RecEmptyId, RecEmptyId>>
    /\ test_cases[q] = <<>>
    /\ view.run_id = run_id[r]
    /\ view.response.name = "report.html"

\* C17: skipping a record has no effect beyond the warning: the step that
\* skips leaves the run report under construction, the store, the position
\* of the handler and its response as they are and moves to the next record;
\* for a record with an empty identifier the generator is not called, the
\* executor is not called and no cooldown is taken.
C17_SkipStep ==
  \A r \in Reqs :
    (Len(calls'[r]) > Len(calls[r]) /\ calls'[r][Len(calls'[r])].op = "skip") =>
      /\ calls'[r] = Append(calls[r], Ev("skip", i[r]))
      /\ i'[r] = i[r] + 1
      /\ final_report' = final_report
      /\ REPORT_DB' = REPORT_DB
      /\ pc' = pc
      /\ initial_script' = initial_script
      /\ response' = response
      /\ run_id' = run_id
      /\ test_cases' = test_cases

C17_SkippedUntouched ==
  \A r \in Reqs : \A n \in DOMAIN test_cases[r] :
    ExpectedId(n, test_cases[r][n]) = "" =>
      /\ \A k \in DOMAIN calls[r] :
           calls[r][k].i = n - 1 => calls[r][k].op = "skip"
      /\ Cardinality(EventsOf(r, "skip", n - 1)) = IF i[r] > n - 1 THEN 1 ELSE 0

C17_SkipHasNoEffect == [][C17_SkipStep /\ C17_SkippedUntouched']_vars

C17_Witness ==
  \E r \in Reqs :
    /\ pc[r] = "loop"
    /\ i[r] = 2
    /\ test_cases[r] = <<RecNamed, RecEmptyId>>
    /\ Len(final_report[r].test_cases) = 1
    /\ calls[r][Len(calls[r])] = Ev("skip", 1)
    /\ Cardinality({k \in DOMAIN calls[r] : calls[r][k].op = "sleep"}) = 1

====
